---- MODULE Spec2Model ----
(***************************************************************************)
(* Model of the rotki dashboard panel OverallBalances.vue (net worth,      *)
(* delta / percentage derivation, time-frame selection, premium watcher)   *)
(* and of the statistics HTTP client statistics-api.ts.                    *)
(*                                                                         *)
(* Three specifications share the variables:                               *)
(*   Spec        the reactive derivations of the panel (computed values)   *)
(*   SpecPanel   setTimeframe, onMounted and the premium watcher           *)
(*   SpecClient  one call of a StatisticsClient operation                  *)
(***************************************************************************)
EXTENDS Integers, Sequences, FiniteSets, TLC

VARIABLES
    \* ---- reactive inputs of the computed values (Spec)
    timeframeData,      \* get(getNetValue(startingDate)).data : number[]
    totalNetWorth,      \* statistics.totalNetWorth (BigNumber, integral here)
    floatingPrecision,  \* general settings: floatingPrecision
    loadingEth,         \* isSectionLoading(Section.BLOCKCHAIN_ETH)
    loadingBtc,         \* isSectionLoading(Section.BLOCKCHAIN_BTC)
    \* ---- panel / stores (SpecPanel)
    timeframe,          \* session store: timeframe
    lastKnownTimeframe, \* frontend settings store: lastKnownTimeframe
    premium,            \* premium store: premium
    logged,             \* session auth store: logged
    mounted,            \* the component instance is alive (setup + mounted)
    watchOld,           \* value of premium last seen by watch(premium)
    watchQueued,        \* the watcher job is queued for the next flush
    setPc,              \* position inside the synchronous part of setTimeframe
    setArg,             \* argument of the running setTimeframe call
    setResult,          \* how the last setTimeframe call got past its assert
    inflight,           \* updateSetting requests awaiting their reply
    fetching,           \* fetchNetValue calls issued by the watcher, in flight
    \* ---- statistics client (SpecClient)
    op,                 \* the client operation being called
    callPc,             \* position inside the call
    requests,           \* HTTP requests issued by the call
    response,           \* what the backend answered
    outcome             \* how the call ended for the caller

inputVars  == <<timeframeData, totalNetWorth, floatingPrecision, loadingEth, loadingBtc>>
panelVars  == <<timeframe, lastKnownTimeframe, premium, logged, mounted, watchOld,
                watchQueued, setPc, setArg, setResult, inflight, fetching>>
clientVars == <<op, callPc, requests, response, outcome>>
vars       == <<inputVars, panelVars, clientVars>>

-----------------------------------------------------------------------------
(* Bounds of the model *)

MaxLen == 4

NetValues == {-3, 0, 2, 50, 80}

Totals == {-3, 0, 100, 12345, 1234567}

Precisions == {0, 2, 8}

MaxInflight == 2

MaxFetching == 2

SeqsUpTo(S, n) == UNION {[1..k -> S] : k \in 0..n}

-----------------------------------------------------------------------------
(* BigNumber values: a finite decimal in sign / integer part / fraction     *)
(* digits form, NaN, or a signed infinity.                                  *)

Abs(n) == IF n < 0 THEN -n ELSE n

BN(n) == [k |-> "fin", s |-> IF n < 0 THEN -1 ELSE 1, ip |-> Abs(n), fp |-> <<>>]

NaN == [k |-> "nan", s |-> 1, ip |-> 0, fp |-> <<>>]

Infinity(sign) == [k |-> "inf", s |-> sign, ip |-> 0, fp |-> <<>>]

\* a JavaScript value read from an array: a number, or undefined past the end
JsNumber(n) == [defined |-> TRUE, n |-> n]

Undefined == [defined |-> FALSE, n |-> 0]

bigNumberify(v) == IF v.defined THEN BN(v.n) ELSE NaN

isFinite(x) == x.k = "fin"

isZero(x) == x.k = "fin" /\ x.ip = 0 /\ \A i \in 1..Len(x.fp) : x.fp[i] = 0

isNegative(x) == x.k # "nan" /\ x.s < 0

\* the signed value of an integral BigNumber
IntOf(x) == x.s * x.ip

\* x.minus(y) for integral operands
minus(x, y) ==
    IF x.k = "nan" \/ y.k = "nan" THEN NaN
    ELSE IF x.k = "inf" \/ y.k = "inf" THEN
        IF x.k = "inf" /\ y.k = "inf" THEN (IF x.s = y.s THEN NaN ELSE x)
        ELSE IF x.k = "inf" THEN x ELSE Infinity(-y.s)
    ELSE BN(IntOf(x) - IntOf(y))

DECIMAL_PLACES == 20

RECURSIVE FracDigits(_, _, _)
\* n digits of the long division of remainder r by b
FracDigits(r, b, n) ==
    IF n = 0 THEN <<>>
    ELSE <<(r * 10) \div b>> \o FracDigits((r * 10) % b, b, n - 1)

RECURSIVE RemAfter(_, _, _)
RemAfter(r, b, n) == IF n = 0 THEN r ELSE RemAfter((r * 10) % b, b, n - 1)

RECURSIVE IncDigits(_)
\* adds one unit in the last place; carry is 1 when every digit was 9
IncDigits(ds) ==
    IF ds = <<>> THEN [out |-> <<>>, carry |-> 1]
    ELSE LET last == ds[Len(ds)]
             init == SubSeq(ds, 1, Len(ds) - 1)
         IN  IF last < 9 THEN [out |-> Append(init, last + 1), carry |-> 0]
             ELSE LET t == IncDigits(init)
                  IN  [out |-> Append(t.out, 0), carry |-> t.carry]

\* magnitude (ip, ds) rounded half-up on the digit that follows ds
RoundHalfUp(ip, ds, next) ==
    IF next >= 5
    THEN LET t == IncDigits(ds) IN [ip |-> ip + t.carry, fp |-> t.out]
    ELSE [ip |-> ip, fp |-> ds]

\* x.div(y) for integral operands, to DECIMAL_PLACES places, ROUND_HALF_UP
div(x, y) ==
    IF x.k = "nan" \/ y.k = "nan" THEN NaN
    ELSE IF x.k = "inf" THEN (IF y.k = "inf" THEN NaN ELSE Infinity(x.s * y.s))
    ELSE IF y.k = "inf" THEN [BN(0) EXCEPT !.s = x.s * y.s]
    ELSE IF y.ip = 0 THEN (IF x.ip = 0 THEN NaN ELSE Infinity(x.s * y.s))
    ELSE LET q  == x.ip \div y.ip
             r  == x.ip % y.ip
             ds == FracDigits(r, y.ip, DECIMAL_PLACES)
             nx == (RemAfter(r, y.ip, DECIMAL_PLACES) * 10) \div y.ip
             m  == RoundHalfUp(q, ds, nx)
         IN  [k |-> "fin", s |-> x.s * y.s, ip |-> m.ip, fp |-> m.fp]

RECURSIVE MulDigits(_, _)
\* fraction digits times a small natural, with the carry into the integer part
MulDigits(ds, n) ==
    IF ds = <<>> THEN [out |-> <<>>, carry |-> 0]
    ELSE LET t == MulDigits(Tail(ds), n)
             v == Head(ds) * n + t.carry
         IN  [out |-> <<v % 10>> \o t.out, carry |-> v \div 10]

\* x.multipliedBy(n) for a natural n
multipliedBy(x, n) ==
    IF x.k = "nan" THEN NaN
    ELSE IF x.k = "inf" THEN (IF n = 0 THEN NaN ELSE x)
    ELSE LET t == MulDigits(x.fp, n)
         IN  [k |-> "fin", s |-> x.s, ip |-> x.ip * n + t.carry, fp |-> t.out]

-----------------------------------------------------------------------------
(* Formatting: strings are sequences of one-character strings.              *)

DigitChar(d) == <<"0", "1", "2", "3", "4", "5", "6", "7", "8", "9">>[d + 1]

RECURSIVE IntDigits(_)
IntDigits(n) == IF n < 10 THEN <<n>> ELSE Append(IntDigits(n \div 10), n % 10)

Chars(ds) == [i \in 1..Len(ds) |-> DigitChar(ds[i])]

Zeros(n) == [i \in 1..n |-> 0]

\* x.toFixed(dp): the magnitude rounded half-up to dp places; the sign is
\* written when x is negative and was not zero before rounding
toFixed(x, dp) ==
    LET m    == IF Len(x.fp) <= dp
                THEN [ip |-> x.ip, fp |-> x.fp \o Zeros(dp - Len(x.fp))]
                ELSE RoundHalfUp(x.ip, SubSeq(x.fp, 1, dp), x.fp[dp + 1])
        sign == IF x.s < 0 /\ ~isZero(x) THEN <<"-">> ELSE <<>>
    IN  [sign |-> sign, int |-> Chars(IntDigits(m.ip)), frac |-> Chars(m.fp)]

RECURSIVE Group(_)
\* the integer digits in groups of three, separated by ","
Group(cs) ==
    IF Len(cs) <= 3 THEN cs
    ELSE Group(SubSeq(cs, 1, Len(cs) - 3)) \o <<",">> \o SubSeq(cs, Len(cs) - 2, Len(cs))

\* x.toFormat(dp) with the default format (groupSize 3, "," and ".")
toFormat(x, dp) ==
    IF x.k = "nan" THEN <<"N", "a", "N">>
    ELSE IF x.k = "inf"
         THEN (IF x.s < 0 THEN <<"-">> ELSE <<>>) \o <<"I","n","f","i","n","i","t","y">>
    ELSE LET f == toFixed(x, dp)
         IN  f.sign \o Group(f.int) \o (IF f.frac = <<>> THEN <<>> ELSE <<".">> \o f.frac)

\* String.prototype.replace(/c/g, '')
Remove(cs, c) == SelectSeq(cs, LAMBDA ch : ch # c)

-----------------------------------------------------------------------------
(* The computed values of OverallBalances.vue                               *)

isLoading == loadingEth \/ loadingBtc

RECURSIVE ScanPositive_noBreak(_, _, _)
\* the loop without its break: the last positive value wins
ScanPositive_noBreak(data, i, start) ==
    IF i < Len(data)
    THEN ScanPositive_noBreak(data, i + 1,
                              IF data[i + 1] > 0 THEN JsNumber(data[i + 1]) ELSE start)
    ELSE start

RECURSIVE ScanPositive(_, _, _)
\* the for loop of startingValue: i is the 0-based index of the code
ScanPositive(data, i, start) ==
    IF i < Len(data)
    THEN IF data[i + 1] > 0 THEN JsNumber(data[i + 1])
         ELSE ScanPositive(data, i + 1, start)
    ELSE start

RECURSIVE ScanNonZero(_, _, _)
ScanNonZero(data, i, start) ==
    IF i < Len(data)
    THEN IF data[i + 1] # 0 THEN JsNumber(data[i + 1])
         ELSE ScanNonZero(data, i + 1, start)
    ELSE start

\* startingValue with the loop testing data[i] !== 0 instead of data[i] > 0
startingValueOf_nonZero(data) ==
    LET start == IF Len(data) > 0 THEN JsNumber(data[1]) ELSE Undefined
    IN  bigNumberify(IF start.defined /\ start.n = 0
                     THEN ScanNonZero(data, 1, start)
                     ELSE start)

startingValueOf(data) ==
    LET start == IF Len(data) > 0 THEN JsNumber(data[1]) ELSE Undefined
    IN  bigNumberify(IF start.defined /\ start.n = 0
                     THEN ScanPositive(data, 1, start)
                     ELSE start)

startingValue == startingValueOf(timeframeData)

FontBase == 12

\* the factor without the clip to 1
adjustedFontSizeOf_unclipped(total, precision) ==
    <<FontBase, Len(Remove(Remove(toFormat(BN(total), precision), "."), ","))>>

\* Math.min(1, 12 / digits) as a fraction <<numerator, denominator>>
adjustedFontSizeOf(total, precision) ==
    LET digits == Len(Remove(Remove(toFormat(BN(total), precision), "."), ","))
    IN  IF FontBase < digits THEN <<FontBase, digits>> ELSE <<1, 1>>

adjustedTotalNetWorthFontSize == adjustedFontSizeOf(totalNetWorth, floatingPrecision)

balanceDelta == minus(BN(totalNetWorth), startingValue)

\* percentage without the isFinite guard
percentage_unguarded ==
    toFormat(multipliedBy(div(balanceDelta, startingValue), 100), 2)

percentage ==
    LET bigNumber == multipliedBy(div(balanceDelta, startingValue), 100)
    IN  IF isFinite(bigNumber) THEN toFormat(bigNumber, 2) ELSE <<"-">>

\* indicator that does not look at isLoading
indicator_whileLoading ==
    IF isNegative(balanceDelta) THEN "mdi-menu-down" ELSE "mdi-menu-up"

indicator ==
    IF isLoading THEN ""
    ELSE IF isNegative(balanceDelta) THEN "mdi-menu-down" ELSE "mdi-menu-up"

balanceClass ==
    IF isLoading THEN "rotki-grey lighten-3"
    ELSE IF isNegative(balanceDelta) THEN "rotki-red lighten-1" ELSE "rotki-green"

-----------------------------------------------------------------------------
(* Values of the enumerations of @rotki/common/lib/settings/graphs          *)

ALL == "All"
YEAR == "1Y"
THREE_MONTHS == "3M"
MONTH == "1M"
TWO_WEEKS == "2W"
WEEK == "1W"
REMEMBER == "REMEMBER"

TimeFramePeriod == {ALL, YEAR, THREE_MONTHS, MONTH, TWO_WEEKS, WEEK}

TimeFrameSetting == TimeFramePeriod \cup {REMEMBER}

ClientOps == {"queryNetValueData", "queryTimedBalancesData",
              "queryLatestLocationValueDistribution",
              "queryLatestAssetValueDistribution", "queryStatisticsRenderer"}

\* the operations whose result goes through <Schema>.parse
ParsedOps == {"queryTimedBalancesData", "queryLatestLocationValueDistribution",
              "queryLatestAssetValueDistribution"}

NoResponse == [arrived |-> FALSE, statusOk |-> FALSE, hasResult |-> FALSE, schemaOk |-> FALSE]

Responses == [arrived : {TRUE}, statusOk : BOOLEAN, hasResult : BOOLEAN, schemaOk : BOOLEAN]

\* the periods a user without premium may select
isPeriodAllowed(period) == period \in {TWO_WEEKS, WEEK}

\* the periods offered by the TimeframeSelector (frontend setting visibleTimeframes)
VisibleTimeframes == {ALL, MONTH, TWO_WEEKS}

-----------------------------------------------------------------------------
(* Initial values of the three groups of variables                          *)

InputsIdle ==
    /\ timeframeData = <<0, 2>>
    /\ totalNetWorth = 2
    /\ floatingPrecision = 2
    /\ loadingEth = FALSE
    /\ loadingBtc = FALSE

PanelIdle ==
    /\ timeframe = TWO_WEEKS
    /\ lastKnownTimeframe = TWO_WEEKS
    /\ premium = FALSE
    /\ logged = FALSE
    /\ mounted = FALSE
    /\ watchOld = FALSE
    /\ watchQueued = FALSE
    /\ setPc = "idle"
    /\ setArg = TWO_WEEKS
    /\ setResult = "none"
    /\ inflight = [v \in TimeFrameSetting |-> 0]
    /\ fetching = 0

ClientIdle ==
    /\ op = "queryNetValueData"
    /\ callPc = "idle"
    /\ requests = 0
    /\ response = NoResponse
    /\ outcome = "none"

-----------------------------------------------------------------------------
(* Spec: the reactive inputs change, the computed values follow             *)

\* the series of the window holds points, or the store has no data yet
Init ==
    /\ \/ timeframeData \in SeqsUpTo(NetValues, MaxLen) \ {<<>>}
       \/ timeframeData = <<>>
    /\ totalNetWorth \in Totals
    /\ floatingPrecision \in Precisions
    /\ loadingEth \in BOOLEAN
    /\ loadingBtc \in BOOLEAN
    /\ PanelIdle
    /\ ClientIdle

\* a new balance snapshot is appended to the series of the window
NetValueAppended ==
    /\ Len(timeframeData) < MaxLen
    /\ \E v \in NetValues : timeframeData' = Append(timeframeData, v)
    /\ UNCHANGED <<totalNetWorth, floatingPrecision, loadingEth, loadingBtc>>

\* the window moves: the oldest point leaves the series
NetValueDropped ==
    /\ Len(timeframeData) > 0
    /\ timeframeData' = Tail(timeframeData)
    /\ UNCHANGED <<totalNetWorth, floatingPrecision, loadingEth, loadingBtc>>

TotalNetWorthChanged ==
    /\ \E t \in Totals \ {totalNetWorth} : totalNetWorth' = t
    /\ UNCHANGED <<timeframeData, floatingPrecision, loadingEth, loadingBtc>>

FloatingPrecisionChanged ==
    /\ \E p \in Precisions \ {floatingPrecision} : floatingPrecision' = p
    /\ UNCHANGED <<timeframeData, totalNetWorth, loadingEth, loadingBtc>>

EthSectionStatusChanged ==
    /\ loadingEth' = ~loadingEth
    /\ UNCHANGED <<timeframeData, totalNetWorth, floatingPrecision, loadingBtc>>

BtcSectionStatusChanged ==
    /\ loadingBtc' = ~loadingBtc
    /\ UNCHANGED <<timeframeData, totalNetWorth, floatingPrecision, loadingEth>>

Next ==
    \/ NetValueAppended /\ UNCHANGED <<panelVars, clientVars>>
    \/ NetValueDropped /\ UNCHANGED <<panelVars, clientVars>>
    \/ TotalNetWorthChanged /\ UNCHANGED <<panelVars, clientVars>>
    \/ FloatingPrecisionChanged /\ UNCHANGED <<panelVars, clientVars>>
    \/ EthSectionStatusChanged /\ UNCHANGED <<panelVars, clientVars>>
    \/ BtcSectionStatusChanged /\ UNCHANGED <<panelVars, clientVars>>

Spec == Init /\ [][Next]_vars

-----------------------------------------------------------------------------
(* SpecPanel: setTimeframe, onMounted and watch(premium).  JavaScript runs   *)
(* a handler to its first await before anything else, so every other action *)
(* waits while setTimeframe is in its synchronous part (setPc # "idle").     *)

InitPanel ==
    /\ InputsIdle
    /\ ClientIdle
    /\ timeframe \in TimeFramePeriod
    /\ lastKnownTimeframe = timeframe
    /\ premium \in BOOLEAN
    /\ logged = FALSE
    /\ mounted = FALSE
    /\ watchOld = FALSE
    /\ watchQueued = FALSE
    /\ setPc = "idle"
    /\ setArg = TWO_WEEKS
    /\ setResult = "none"
    /\ inflight = [v \in TimeFrameSetting |-> 0]
    /\ fetching = 0

InflightTotal == inflight[ALL] + inflight[YEAR] + inflight[THREE_MONTHS] + inflight[MONTH]
                 + inflight[TWO_WEEKS] + inflight[WEEK] + inflight[REMEMBER]

\* onMounted without the downgrade
Mount_noDowngrade ==
    /\ setPc = "idle"
    /\ ~mounted
    /\ mounted' = TRUE
    /\ watchOld' = premium
    /\ watchQueued' = FALSE
    /\ UNCHANGED <<timeframe, lastKnownTimeframe, premium, logged, setPc, setArg,
                   setResult, inflight, fetching>>

\* the component is created: setup registers watch(premium), then onMounted runs
Mount ==
    /\ setPc = "idle"
    /\ ~mounted
    /\ mounted' = TRUE
    /\ watchOld' = premium
    /\ watchQueued' = FALSE
    /\ LET isPremium == premium
           selectedTimeframe == timeframe
       IN  IF ~isPremium /\ ~isPeriodAllowed(selectedTimeframe)
           THEN timeframe' = TWO_WEEKS
           ELSE timeframe' = timeframe
    /\ UNCHANGED <<lastKnownTimeframe, premium, logged, setPc, setArg, setResult,
                   inflight, fetching>>

\* the component is destroyed: its watcher stops; requests in flight go on
Unmount ==
    /\ setPc = "idle"
    /\ mounted
    /\ mounted' = FALSE
    /\ watchQueued' = FALSE
    /\ UNCHANGED <<timeframe, lastKnownTimeframe, premium, logged, watchOld, setPc,
                   setArg, setResult, inflight, fetching>>

\* the premium store changes its flag; a live watcher queues its job
PremiumChanged ==
    /\ setPc = "idle"
    /\ premium' = ~premium
    /\ watchQueued' = (mounted \/ watchQueued)
    /\ UNCHANGED <<timeframe, lastKnownTimeframe, logged, mounted, watchOld, setPc,
                   setArg, setResult, inflight, fetching>>

\* login or logout
LoggedChanged ==
    /\ setPc = "idle"
    /\ logged' = ~logged
    /\ UNCHANGED <<timeframe, lastKnownTimeframe, premium, mounted, watchOld,
                   watchQueued, setPc, setArg, setResult, inflight, fetching>>

\* the watcher callback fetching whether or not the user is logged in
WatchPremium_ignoresLogged ==
    /\ setPc = "idle"
    /\ mounted /\ watchQueued
    /\ premium # watchOld => fetching < MaxFetching
    /\ watchQueued' = FALSE
    /\ watchOld' = premium
    /\ fetching' = IF premium # watchOld THEN fetching + 1 ELSE fetching
    /\ UNCHANGED <<timeframe, lastKnownTimeframe, premium, logged, mounted, setPc,
                   setArg, setResult, inflight>>

\* the queued watcher job runs: the callback is called when premium differs
\* from the value the watcher saw last, and fetches when the user is logged in
WatchPremium ==
    /\ setPc = "idle"
    /\ mounted /\ watchQueued
    /\ (premium # watchOld /\ logged) => fetching < MaxFetching
    /\ watchQueued' = FALSE
    /\ watchOld' = premium
    /\ fetching' = IF premium # watchOld /\ logged THEN fetching + 1 ELSE fetching
    /\ UNCHANGED <<timeframe, lastKnownTimeframe, premium, logged, mounted, setPc,
                   setArg, setResult, inflight>>

\* a fetchNetValue call settles
FetchNetValueSettled ==
    /\ setPc = "idle"
    /\ fetching > 0
    /\ fetching' = fetching - 1
    /\ UNCHANGED <<timeframe, lastKnownTimeframe, premium, logged, mounted, watchOld,
                   watchQueued, setPc, setArg, setResult, inflight>>

\* the TimeframeSelector emits input: setTimeframe(value) is entered
SetTimeframeCalled ==
    /\ setPc = "idle"
    /\ mounted
    /\ InflightTotal < MaxInflight
    /\ \E value \in VisibleTimeframes \cup {REMEMBER} : setArg' = value
    /\ setPc' = "assert"
    /\ UNCHANGED <<timeframe, lastKnownTimeframe, premium, logged, mounted, watchOld,
                   watchQueued, setResult, inflight, fetching>>

\* assert(condition) of @/utils/assertions: throws when the condition is false
assertThrows(condition) == ~condition

\* setTimeframe without its assert
SetTimeframeAssert_missing ==
    /\ setPc = "assert"
    /\ setPc' = "update"
    /\ UNCHANGED <<timeframe, lastKnownTimeframe, premium, logged, mounted, watchOld,
                   watchQueued, setArg, setResult, inflight, fetching>>

\* assert(value !== TimeFramePersist.REMEMBER): a failed assert throws and the
\* call ends there
SetTimeframeAssert ==
    /\ setPc = "assert"
    /\ IF assertThrows(setArg # REMEMBER)
       THEN setPc' = "idle" /\ setArg' = TWO_WEEKS /\ setResult' = "AssertionError"
       ELSE setPc' = "update" /\ UNCHANGED <<setArg, setResult>>
    /\ UNCHANGED <<timeframe, lastKnownTimeframe, premium, logged, mounted, watchOld,
                   watchQueued, inflight, fetching>>

\* setTimeframe going on to persist without updating the session store
SetTimeframeUpdate_skipped ==
    /\ setPc = "update"
    /\ setPc' = "persist"
    /\ UNCHANGED <<timeframe, lastKnownTimeframe, premium, logged, mounted, watchOld,
                   watchQueued, setArg, setResult, inflight, fetching>>

\* sessionStore.update({ timeframe: value })
SetTimeframeUpdate ==
    /\ setPc = "update"
    /\ timeframe' = setArg
    /\ setPc' = "persist"
    /\ UNCHANGED <<lastKnownTimeframe, premium, logged, mounted, watchOld,
                   watchQueued, setArg, setResult, inflight, fetching>>

\* frontendStore.updateSetting({ lastKnownTimeframe: value }) is started and
\* awaited: the synchronous part of setTimeframe ends
SetTimeframePersist ==
    /\ setPc = "persist"
    /\ inflight' = [inflight EXCEPT ![setArg] = @ + 1]
    /\ setPc' = "idle"
    /\ setArg' = TWO_WEEKS
    /\ UNCHANGED <<timeframe, lastKnownTimeframe, premium, logged, mounted, watchOld,
                   watchQueued, setResult, fetching>>

\* an updateSetting request succeeds: the setting is stored
UpdateSettingSucceeded ==
    /\ setPc = "idle"
    /\ \E value \in TimeFrameSetting :
          /\ inflight[value] > 0
          /\ inflight' = [inflight EXCEPT ![value] = @ - 1]
          /\ lastKnownTimeframe' = value
    /\ setResult' = "persisted"
    /\ UNCHANGED <<timeframe, premium, logged, mounted, watchOld, watchQueued, setPc,
                   setArg, fetching>>

\* an updateSetting request fails: the stored setting stays
UpdateSettingFailed ==
    /\ setPc = "idle"
    /\ \E value \in TimeFrameSetting :
          /\ inflight[value] > 0
          /\ inflight' = [inflight EXCEPT ![value] = @ - 1]
    /\ setResult' = "persistFailed"
    /\ UNCHANGED <<timeframe, lastKnownTimeframe, premium, logged, mounted, watchOld,
                   watchQueued, setPc, setArg, fetching>>

NextPanel ==
    \/ Mount /\ UNCHANGED <<inputVars, clientVars>>
    \/ Unmount /\ UNCHANGED <<inputVars, clientVars>>
    \/ PremiumChanged /\ UNCHANGED <<inputVars, clientVars>>
    \/ LoggedChanged /\ UNCHANGED <<inputVars, clientVars>>
    \/ WatchPremium /\ UNCHANGED <<inputVars, clientVars>>
    \/ FetchNetValueSettled /\ UNCHANGED <<inputVars, clientVars>>
    \/ SetTimeframeCalled /\ UNCHANGED <<inputVars, clientVars>>
    \/ SetTimeframeAssert /\ UNCHANGED <<inputVars, clientVars>>
    \/ SetTimeframeUpdate /\ UNCHANGED <<inputVars, clientVars>>
    \/ SetTimeframePersist /\ UNCHANGED <<inputVars, clientVars>>
    \/ UpdateSettingSucceeded /\ UNCHANGED <<inputVars, clientVars>>
    \/ UpdateSettingFailed /\ UNCHANGED <<inputVars, clientVars>>

SpecPanel == InitPanel /\ [][NextPanel]_vars

-----------------------------------------------------------------------------
(* SpecClient: one call at a time of an operation of useStatisticsApi.       *)
(* The request is awaited; axios rejects a status that validStatus refuses;  *)
(* handleResponse unwraps the envelope; three operations then parse it.      *)

InitClient ==
    /\ InputsIdle
    /\ PanelIdle
    /\ ClientIdle

\* the operation is called: api.instance.get / post issues its request
Call ==
    /\ callPc = "idle"
    /\ \E o \in ClientOps : op' = o
    /\ requests' = 1
    /\ response' = NoResponse
    /\ outcome' = "pending"
    /\ callPc' = "awaiting"

\* the backend answers
Respond ==
    /\ callPc = "awaiting"
    /\ \E r \in Responses : response' = r
    /\ callPc' = "responded"
    /\ UNCHANGED <<op, requests, outcome>>

\* a refused status answered by a second request
ValidateStatus_retry ==
    /\ callPc = "responded"
    /\ IF response.statusOk
       THEN callPc' = "unwrap" /\ UNCHANGED <<requests, response>>
       ELSE callPc' = "awaiting" /\ requests' = requests + 1 /\ response' = NoResponse
    /\ UNCHANGED <<op, outcome>>

\* validateStatus: validStatus -- a refused status rejects the awaited request
\* and the rejection leaves the operation
ValidateStatus ==
    /\ callPc = "responded"
    /\ IF response.statusOk
       THEN callPc' = "unwrap" /\ UNCHANGED outcome
       ELSE callPc' = "done" /\ outcome' = "TransportError"
    /\ UNCHANGED <<op, requests, response>>

\* handleResponse(response): the result of the envelope, or an error thrown
HandleResponse ==
    /\ callPc = "unwrap"
    /\ IF ~response.hasResult
       THEN callPc' = "done" /\ outcome' = "ResponseError"
       ELSE IF op \in ParsedOps
            THEN callPc' = "parse" /\ UNCHANGED outcome
            ELSE callPc' = "done" /\ outcome' = "result"
    /\ UNCHANGED <<op, requests, response>>

\* a parse that hands the unwrapped value on when the schema refuses it
Parse_lenient ==
    /\ callPc = "parse"
    /\ outcome' = "result"
    /\ callPc' = "done"
    /\ UNCHANGED <<op, requests, response>>

\* TimedBalances.parse / LocationData.parse / TimedAssetBalances.parse
Parse ==
    /\ callPc = "parse"
    /\ outcome' = IF response.schemaOk THEN "result" ELSE "SchemaValidationError"
    /\ callPc' = "done"
    /\ UNCHANGED <<op, requests, response>>

\* the caller has the outcome; the client can be called again
Settle ==
    /\ callPc = "done"
    /\ callPc' = "idle"
    /\ UNCHANGED <<op, requests, response, outcome>>

NextClient ==
    \/ Call /\ UNCHANGED <<inputVars, panelVars>>
    \/ Respond /\ UNCHANGED <<inputVars, panelVars>>
    \/ ValidateStatus /\ UNCHANGED <<inputVars, panelVars>>
    \/ HandleResponse /\ UNCHANGED <<inputVars, panelVars>>
    \/ Parse /\ UNCHANGED <<inputVars, panelVars>>
    \/ Settle /\ UNCHANGED <<inputVars, panelVars>>

SpecClient == InitClient /\ [][NextClient]_vars

-----------------------------------------------------------------------------
(* Properties of the computed values, checked under Spec                    *)

Min(S) == CHOOSE m \in S : \A x \in S : m <= x

\* the first strictly-positive value after the first entry, or zero
FirstPositiveLater(data) ==
    LET P == {i \in 2..Len(data) : data[i] > 0}
    IN  IF P = {} THEN 0 ELSE data[Min(P)]

\* the first non-zero entry, or zero
FirstNonZero(data) ==
    LET P == {i \in 1..Len(data) : data[i] # 0}
    IN  IF P = {} THEN 0 ELSE data[Min(P)]

\* C1: a series whose first value is exactly zero starts at the first
\* strictly-positive value found in order after the first entry, and at zero
\* when there is none; a series whose first value is not zero starts at it.
C1_StartingValueSelection ==
    Len(timeframeData) > 0 =>
        /\ timeframeData[1] = 0 => startingValue = BN(FirstPositiveLater(timeframeData))
        /\ timeframeData[1] # 0 => startingValue = BN(timeframeData[1])

C1_Witness ==
    /\ Len(timeframeData) = 4
    /\ timeframeData[1] = 0 /\ timeframeData[2] < 0
    /\ timeframeData[3] = 50 /\ timeframeData[4] = 80
    /\ startingValue = BN(50)

\* C6 as stated: for every series, the empty one and those with negative values
\* included, startingValue is the first non-zero entry, or zero if none.
C6_FirstNonZeroEntry == startingValue = BN(FirstNonZero(timeframeData))

\* C6 amended: for every non-empty series startingValue is the first non-zero
\* entry (zero if there is none), except that after a leading zero the negative
\* entries are passed over: the series then starts at its first strictly-positive
\* later entry, or at zero if it has none.  An empty series has no first entry:
\* its startingValue is not a number, not zero.
C6_FirstNonZeroUnlessNegative ==
    IF Len(timeframeData) = 0 THEN startingValue = NaN
    ELSE IF timeframeData[1] = 0 /\ FirstNonZero(timeframeData) < 0
    THEN startingValue = BN(FirstPositiveLater(timeframeData))
    ELSE startingValue = BN(FirstNonZero(timeframeData))

C6_Witness ==
    /\ Len(timeframeData) = 3
    /\ timeframeData[1] = 0 /\ timeframeData[2] < 0 /\ timeframeData[3] = 0
    /\ startingValue = BN(0)

DigitValue(ch) == CHOOSE d \in 0..9 : DigitChar(d) = ch

RECURSIVE NumberOf(_)
\* the number written by a sequence of digit characters
NumberOf(cs) ==
    IF cs = <<>> THEN 0
    ELSE NumberOf(SubSeq(cs, 1, Len(cs) - 1)) * 10 + DigitValue(cs[Len(cs)])

IsDigit(ch) == \E d \in 0..9 : DigitChar(d) = ch

\* cs reads as a number with two decimals: an optional "-", the integer digits
\* in groups of three separated by ",", a "." and two digits
ReadsAs(cs, negative, intPart, hundredths) ==
    LET body == IF negative THEN Tail(cs) ELSE cs
        n    == Len(body)
        int  == SubSeq(body, 1, n - 3)
    IN  /\ Len(cs) >= 4 + (IF negative THEN 1 ELSE 0)
        /\ negative => cs[1] = "-"
        /\ body[n - 2] = "."
        /\ IsDigit(body[n - 1]) /\ IsDigit(body[n])
        /\ NumberOf(SubSeq(body, n - 1, n)) = hundredths
        /\ \A i \in 1..Len(int) :
              IF (Len(int) - i + 1) % 4 = 0 THEN int[i] = "," ELSE IsDigit(int[i])
        /\ int[1] # ","
        /\ Len(int) > 1 => int[1] # "0"
        /\ NumberOf(Remove(int, ",")) = intPart

\* delta / start * 100 rounded half-up (away from zero) to two decimals,
\* computed on integers without the 20-place intermediate quotient
ExactPercent(delta, start) ==
    LET d  == Abs(delta)
        b  == Abs(start)
        r1 == (d % b) * 100
        r2 == (r1 % b) * 100
        i0 == (d \div b) * 100 + r1 \div b
        h0 == r2 \div b
        up == 2 * (r2 % b) >= b
        h1 == IF up THEN h0 + 1 ELSE h0
    IN  [negative   |-> (delta < 0) # (start < 0) /\ delta # 0,
         intPart    |-> IF h1 = 100 THEN i0 + 1 ELSE i0,
         hundredths |-> IF h1 = 100 THEN 0 ELSE h1]

\* C2: delta = currentTotal - startingValue; with a non-zero startingValue the
\* percentage is delta / startingValue x 100 formatted to two decimals (series
\* [0, 0, 50, 80] and total 100 give 50, 50 and "100.00"); with a zero
\* startingValue the percentage is the dash, never a number, Infinity or NaN.
C2_PercentageDerivation ==
    LET pct == percentage
        sv  == startingValue
    IN  /\ isFinite(sv) =>
              LET start == IntOf(sv)
                  delta == totalNetWorth - start
                  e     == ExactPercent(delta, start)
              IN  /\ balanceDelta = BN(delta)
                  /\ start # 0 => ReadsAs(pct, e.negative, e.intPart, e.hundredths)
                  /\ start = 0 => pct = <<"-">>
        /\ (timeframeData = <<0, 0, 50, 80>> /\ totalNetWorth = 100) =>
              /\ sv = BN(50)
              /\ balanceDelta = BN(50)
              /\ pct = <<"1", "0", "0", ".", "0", "0">>
        /\ pct # <<"N", "a", "N">>
        /\ \A i \in 1..Len(pct) : pct[i] \in {"-", ",", "."} \/ IsDigit(pct[i])

C2_Witness ==
    /\ timeframeData = <<0, 0, 50, 80>>
    /\ totalNetWorth = 100
    /\ percentage = <<"1", "0", "0", ".", "0", "0">>

RECURSIVE NumDigits(_)
NumDigits(n) == IF n < 10 THEN 1 ELSE 1 + NumDigits(n \div 10)

\* what the panel counts: the digits of the total at the given precision, and
\* the "-" of a negative total; no "." and no ","
CountedChars(total, precision) ==
    NumDigits(Abs(total)) + precision + (IF total < 0 THEN 1 ELSE 0)

\* a / b <= c / d for fractions with positive denominators
FracLeq(x, y) == x[1] * y[2] <= y[1] * x[2]

\* C5: the factor is min(1, 12 / d) for the count d of the formatted total
\* without its separators; it never exceeds 1, and a larger count never gives
\* a larger factor.
C5_FontScaleFactor ==
    LET f == adjustedTotalNetWorthFontSize
        d == CountedChars(totalNetWorth, floatingPrecision)
    IN  /\ d >= 1
        /\ FracLeq(f, <<1, 1>>)
        /\ IF d <= FontBase THEN FracLeq(<<1, 1>>, f)
           ELSE FracLeq(f, <<FontBase, d>>) /\ FracLeq(<<FontBase, d>>, f)
        /\ \A t \in Totals, p \in Precisions :
              d <= CountedChars(t, p) => FracLeq(adjustedFontSizeOf(t, p), f)

C5_Witness ==
    /\ totalNetWorth = 12345
    /\ floatingPrecision = 8
    /\ adjustedTotalNetWorthFontSize = <<12, 13>>

\* C10: while loading the indicator is empty and the class is the neutral grey
\* whatever the delta; when ready the indicator is the down glyph and the class
\* red exactly when the delta is negative, and the up glyph and green otherwise.
C10_VisualEncoding ==
    LET negative == /\ isFinite(startingValue)
                    /\ totalNetWorth < IntOf(startingValue)
    IN  /\ isLoading => indicator = "" /\ balanceClass = "rotki-grey lighten-3"
        /\ (~isLoading /\ negative) =>
              indicator = "mdi-menu-down" /\ balanceClass = "rotki-red lighten-1"
        /\ (~isLoading /\ ~negative) =>
              indicator = "mdi-menu-up" /\ balanceClass = "rotki-green"

C10_Witness ==
    /\ ~isLoading
    /\ totalNetWorth = 0 /\ timeframeData = <<0, -3, 50>>
    /\ indicator = "mdi-menu-down"
    /\ balanceClass = "rotki-red lighten-1"

-----------------------------------------------------------------------------
(* Properties of the panel, checked under SpecPanel                          *)

QuietPanel == setPc = "idle" /\ InflightTotal = 0 /\ setResult = "none"

\* C3: setTimeframe called with the REMEMBER sentinel always fails its assert,
\* before any update: the failing step changes neither the session timeframe
\* nor the persisted lastKnownTimeframe and starts no persistence, and neither
\* of the two ever holds the sentinel.
C3_RememberRejected ==
    /\ [](/\ timeframe # REMEMBER
          /\ lastKnownTimeframe # REMEMBER
          /\ inflight[REMEMBER] = 0
          /\ setPc \in {"update", "persist"} => setArg # REMEMBER)
    /\ [][(setPc = "assert" /\ setArg = REMEMBER) =>
             /\ setPc' = "idle"
             /\ setResult' = "AssertionError"
             /\ timeframe' = timeframe
             /\ lastKnownTimeframe' = lastKnownTimeframe
             /\ inflight' = inflight]_vars

C3_Witness ==
    /\ setResult = "AssertionError"
    /\ setPc = "idle"
    /\ InflightTotal = 0
    /\ timeframe = ALL /\ lastKnownTimeframe = ALL

\* C4: the step that mounts the panel issues no net-value fetch and, when the
\* user is not premium and the selected timeframe is not an allowed period,
\* leaves the session timeframe at TWO_WEEKS; the panel issues a fetch only
\* while mounted, hence after that reset.
C4_MountDowngrade ==
    /\ [][(~mounted /\ mounted') =>
             /\ fetching' = fetching
             /\ (~premium /\ ~isPeriodAllowed(timeframe)) => timeframe' = TWO_WEEKS
             /\ (premium \/ isPeriodAllowed(timeframe)) => timeframe' = timeframe
             /\ ~premium' => isPeriodAllowed(timeframe')]_vars
    /\ [][fetching' > fetching => mounted /\ mounted']_vars

C4_Witness ==
    /\ mounted /\ ~premium /\ QuietPanel
    /\ fetching = 0
    /\ lastKnownTimeframe = ALL
    /\ timeframe = TWO_WEEKS

\* C8: the panel issues a net-value fetch only in the step that handles a
\* change of the premium flag while the user is logged in, and a handled
\* change issues exactly one fetch when the user is logged in at that moment
\* and none when the user is logged out.
C8_RefetchOnlyWhenLogged ==
    /\ [][fetching' > fetching =>
             /\ mounted /\ watchQueued /\ premium # watchOld
             /\ logged
             /\ fetching' = fetching + 1]_vars
    /\ [][(mounted /\ mounted' /\ watchQueued /\ ~watchQueued' /\ premium # watchOld) =>
             /\ logged => fetching' = fetching + 1
             /\ ~logged => fetching' = fetching
             /\ watchOld' = premium]_vars

C8_Witness ==
    /\ mounted /\ logged
    /\ fetching = 1
    /\ ~watchQueued /\ watchOld = premium

\* C9: for a value other than the sentinel, setTimeframe first sets the session
\* timeframe to the value, with no persistence request started yet, then starts
\* the request; a request that succeeds stores the value as lastKnownTimeframe,
\* one that fails stores nothing, and neither touches the session timeframe.
C9_SessionBeforePersist ==
    /\ [][setPc = "update" =>
             /\ timeframe' = setArg
             /\ inflight' = inflight
             /\ lastKnownTimeframe' = lastKnownTimeframe
             /\ setPc' = "persist"]_vars
    /\ [][setPc = "persist" =>
             /\ timeframe = setArg /\ timeframe' = setArg
             /\ inflight' = [inflight EXCEPT ![setArg] = @ + 1]
             /\ lastKnownTimeframe' = lastKnownTimeframe]_vars
    /\ [][\A v \in TimeFrameSetting :
             inflight'[v] < inflight[v] =>
                /\ timeframe' = timeframe
                /\ setResult' \in {"persisted", "persistFailed"}
                /\ setResult' = "persisted" => lastKnownTimeframe' = v
                /\ setResult' = "persistFailed" =>
                      lastKnownTimeframe' = lastKnownTimeframe]_vars
    /\ [][inflight' # inflight => (setPc = "persist" \/ setPc = "idle")]_vars

C9_Witness ==
    /\ setPc = "idle" /\ InflightTotal = 0
    /\ setResult = "persisted"
    /\ timeframe = MONTH /\ lastKnownTimeframe = MONTH

-----------------------------------------------------------------------------
(* Properties of the statistics client, checked under SpecClient             *)

\* C7: a call issues exactly one request; a result is returned only for a
\* validated status and an unwrapped envelope, and for the three parsed
\* operations only after the schema accepted it; parsing starts only after
\* both; a refused status ends the call in the transport error and a refused
\* schema in the schema error, with no second request and no result.
C7_ErrorsPropagate ==
    /\ callPc # "idle" => requests = 1
    /\ requests <= 1
    /\ callPc \in {"unwrap", "parse"} => response.statusOk
    /\ callPc = "parse" => response.hasResult /\ op \in ParsedOps
    /\ outcome = "result" =>
          /\ response.statusOk /\ response.hasResult
          /\ op \in ParsedOps => response.schemaOk
    /\ callPc \in {"done", "idle"} /\ response.arrived =>
          /\ outcome # "pending"
          /\ ~response.statusOk => outcome = "TransportError"
          /\ (response.statusOk /\ response.hasResult /\ op \in ParsedOps
                /\ ~response.schemaOk) => outcome = "SchemaValidationError"
          /\ (response.statusOk /\ response.hasResult /\ op \notin ParsedOps) =>
                outcome = "result"

C7_Witness ==
    /\ callPc = "done"
    /\ op = "queryTimedBalancesData"
    /\ response.statusOk /\ response.hasResult /\ ~response.schemaOk
    /\ outcome = "SchemaValidationError"
    /\ requests = 1

====
